---------------------------- MODULE Spec2Model ----------------------------
(***************************************************************************)
(* A model of symfit/core/fit.py: the symbolic Model and the properties    *)
(* derived from it, the data binding of BaseFit, the bounded least-squares *)
(* driver NumericalLeastSquares.execute, and the ParameterDict view of a   *)
(* fit's result.                                                           *)
(*                                                                         *)
(* Python values are records tagged with their type in field t.  Floating  *)
(* point numbers are integers on a grid on which two neighbouring integers *)
(* are two neighbouring representable numbers, so that np.nextafter moves  *)
(* by one.  Symbol names are strings, compared as Python compares str.     *)
(***************************************************************************)
EXTENDS Integers, Sequences, FiniteSets, TLC

VARIABLES model, view, fit, run, fit_results, pdict, lookup

vars == <<model, view, fit, run, fit_results, pdict, lookup>>

---------------------------------------------------------------------------
(* Python values *)

PyNone == [t |-> "None"]

PyInt(n) == [t |-> "int", v |-> n]

PyFloat(n) == [t |-> "float", v |-> n]

PyArray(s) == [t |-> "ndarray", v |-> s]

PyList(s) == [t |-> "list", v |-> s]

PyBool(b) == [t |-> "bool", v |-> b]

---------------------------------------------------------------------------
(* Strings: str comparison, str.startswith, str.endswith, str.format *)

Chars == <<"0", "1", "2", "3", "4", "5", "6", "7", "8", "9", "_",
           "a", "b", "c", "d", "e", "f", "g", "h", "i", "j", "k", "l", "m",
           "n", "o", "p", "q", "r", "s", "t", "u", "v", "w", "x", "y", "z">>

\* The code point of a one-character string of the alphabet in use.
Ord(c) ==
    LET i == CHOOSE k \in 1..Len(Chars) : Chars[k] = c
    IN  IF i <= 10 THEN 47 + i ELSE IF i = 11 THEN 95 ELSE 85 + i

RECURSIVE StrLessFrom(_, _, _)
StrLessFrom(a, b, i) ==
    IF i > Len(b) THEN FALSE
    ELSE IF i > Len(a) THEN TRUE
    ELSE LET ca == Ord(SubSeq(a, i, i))
             cb == Ord(SubSeq(b, i, i))
         IN  IF ca < cb THEN TRUE
             ELSE IF ca > cb THEN FALSE
             ELSE StrLessFrom(a, b, i + 1)

\* a < b for two str.
StrLess(a, b) == StrLessFrom(a, b, 1)

StartsWith(s, prefix) ==
    Len(s) >= Len(prefix) /\ SubSeq(s, 1, Len(prefix)) = prefix

EndsWith(s, suffix) ==
    Len(s) >= Len(suffix) /\ SubSeq(s, Len(s) - Len(suffix) + 1, Len(s)) = suffix

RECURSIVE FormatInt(_)
\* '{}'.format(n) for an int n >= 0.
FormatInt(n) ==
    IF n < 10 THEN Chars[n + 1]
    ELSE FormatInt(n \div 10) \o Chars[(n % 10) + 1]

---------------------------------------------------------------------------
(* Symbols *)

Parameter(name, value, min, max, fixed) ==
    [cls |-> "Parameter", name |-> name, value |-> value,
     min |-> min, max |-> max, fixed |-> fixed]

Variable(name) == [cls |-> "Variable", name |-> name]

\* sympy.Dummy: every Dummy is a symbol of its own, whatever its name.
Dummy(name, dummy_index) ==
    [cls |-> "Dummy", name |-> name, dummy_index |-> dummy_index]

\* The free symbols of an expression; an expression is the sequence of the
\* symbols it mentions, in the order they are written.
FreeSymbols(expr) == {expr[i] : i \in 1..Len(expr)}

seperate_symbols(expr) ==
    [vars   |-> {s \in FreeSymbols(expr) : s.cls = "Variable"},
     params |-> {s \in FreeSymbols(expr) : s.cls = "Parameter"}]

---------------------------------------------------------------------------
(* sorted(..., key=lambda symbol: symbol.name) *)

RECURSIVE InsertByName(_, _)
\* s is sorted; x goes after every element whose name is not greater.
InsertByName(s, x) ==
    IF s = <<>> THEN <<x>>
    ELSE IF StrLess(x.name, s[1].name) THEN <<x>> \o s
    ELSE <<s[1]>> \o InsertByName(Tail(s), x)

\* A variant of SortedByName that leaves the order as it finds it.
SortedByName_Unsorted(s) == s

RECURSIVE SortedByName(_)
\* The stable sort of a sequence.
SortedByName(s) ==
    IF s = <<>> THEN <<>>
    ELSE InsertByName(SortedByName(SubSeq(s, 1, Len(s) - 1)), s[Len(s)])

RECURSIVE SetToSeq(_)
\* A set in the order its iteration yields: one order, not specified.
SetToSeq(S) ==
    IF S = {} THEN <<>>
    ELSE LET x == CHOOSE y \in S : TRUE IN <<x>> \o SetToSeq(S \ {x})

SortedSetByName(S) == SortedByName(SetToSeq(S))

---------------------------------------------------------------------------
(* dict: a sequence of [k, v] entries in insertion order, keys distinct *)

Keys(d) == [i \in 1..Len(d) |-> d[i].k]

Values(d) == [i \in 1..Len(d) |-> d[i].v]

KeySet(d) == {d[i].k : i \in 1..Len(d)}

Get(d, key) == d[CHOOSE i \in 1..Len(d) : d[i].k = key].v

\* d[key] = value
Put(d, key, value) ==
    IF key \in KeySet(d)
    THEN [i \in 1..Len(d) |-> IF d[i].k = key THEN [k |-> key, v |-> value] ELSE d[i]]
    ELSE Append(d, [k |-> key, v |-> value])

RECURSIVE Update(_, _)
\* d.update(e)
Update(d, e) ==
    IF e = <<>> THEN d ELSE Update(Put(d, e[1].k, e[1].v), Tail(e))

\* d without key (dict.pop's effect on d)
Pop(d, key) == SelectSeq(d, LAMBDA e : e.k # key)

---------------------------------------------------------------------------
(* Model *)

\* A variant of ModelDictOf that names the dependent variables from index,
\* not index + 1.
ModelDictOf_FromZero(args, kwargs) ==
    Update([i \in 1..Len(args) |->
                [k |-> Dummy("y_" \o FormatInt(i - 1), i), v |-> args[i]]],
           [j \in 1..Len(kwargs) |->
                [k |-> Variable(kwargs[j].k), v |-> kwargs[j].v]])

\* The model_dict Model.__init__ builds from its positional expressions
\* (index counts from 0) and its keyword expressions (a dict name -> expr).
ModelDictOf(args, kwargs) ==
    Update([i \in 1..Len(args) |->
                [k |-> Dummy("y_" \o FormatInt((i - 1) + 1), i), v |-> args[i]]],
           [j \in 1..Len(kwargs) |->
                [k |-> Variable(kwargs[j].k), v |-> kwargs[j].v]])

\* sigma_<name of var>
SigmaOf(var) == Variable("sigma_" \o var.name)

\* Model._init_from_dict: the attributes of the Model.
InitFromDict(model_dict) ==
    LET syms == [i \in 1..Len(model_dict) |-> seperate_symbols(model_dict[i].v)]
        dependent_vars == SortedByName(Keys(model_dict))
    IN  [model_dict       |-> model_dict,
         dependent_vars   |-> dependent_vars,
         params           |-> SortedSetByName(UNION {syms[i].params : i \in 1..Len(syms)}),
         independent_vars |-> SortedSetByName(UNION {syms[i].vars : i \in 1..Len(syms)}),
         sigmas           |-> [i \in 1..Len(dependent_vars) |->
                                  [k |-> dependent_vars[i], v |-> SigmaOf(dependent_vars[i])]]]

\* A variant of ModelVars with the dependent variables first.
ModelVars_DependentFirst(m) ==
    m.dependent_vars \o m.independent_vars
        \o [i \in 1..Len(m.dependent_vars) |-> Get(m.sigmas, m.dependent_vars[i])]

\* Model.vars
ModelVars(m) ==
    m.independent_vars \o m.dependent_vars
        \o [i \in 1..Len(m.dependent_vars) |-> Get(m.sigmas, m.dependent_vars[i])]

\* np.nextafter(x, y) for a float x and a number y
NextAfter(x, y) ==
    IF x.v < y THEN PyFloat(x.v + 1)
    ELSE IF x.v > y THEN PyFloat(x.v - 1)
    ELSE x

\* The bounds entry of one Parameter.
BoundsOf(p) ==
    IF p.fixed THEN <<NextAfter(p.value, 0), p.value>> ELSE <<p.min, p.max>>

\* Model.bounds
Bounds(m) == [i \in 1..Len(m.params) |-> BoundsOf(m.params[i])]

---------------------------------------------------------------------------
(* BaseFit.__init__: binding data to the variables of the Model *)

\* inspect.Signature(parameters=...) accepts the names only if no two are equal.
SignatureOk(var_names) ==
    \A i \in 1..Len(var_names), j \in 1..Len(var_names) :
        i # j => var_names[i] # var_names[j]

\* The default of the inspect.Parameter made for a variable name.
DefaultOf(name) == IF StartsWith(name, "sigma_") THEN PyInt(1) ELSE PyNone

\* A variant of BindFails that also fails where a name without the sigma_
\* prefix is given no value.
BindFails_MissingData(var_names, args, kwargs) ==
    \/ Len(args) > Len(var_names)
    \/ \E j \in 1..Len(kwargs) :
          \/ \E i \in 1..Len(args) : var_names[i] = kwargs[j].k
          \/ \A i \in 1..Len(var_names) : var_names[i] # kwargs[j].k
    \/ \E i \in (Len(args) + 1)..Len(var_names) :
          /\ ~StartsWith(var_names[i], "sigma_")
          /\ \A j \in 1..Len(kwargs) : kwargs[j].k # var_names[i]

\* Whether Signature.bind(*args, **kwargs) raises TypeError: too many
\* positional arguments, a name given both ways, or an unexpected keyword.
BindFails(var_names, args, kwargs) ==
    \/ Len(args) > Len(var_names)
    \/ \E j \in 1..Len(kwargs) :
          \/ \E i \in 1..Len(args) : var_names[i] = kwargs[j].k
          \/ \A i \in 1..Len(var_names) : var_names[i] # kwargs[j].k

\* A variant of BoundArguments that hands the positional values out from the
\* last name of the signature backwards.
BoundArguments_Reversed(var_names, args, kwargs) ==
    LET given == SelectSeq([i \in 1..Len(var_names) |-> i],
                           LAMBDA i : i <= Len(args) \/ var_names[i] \in KeySet(kwargs))
    IN  [n \in 1..Len(given) |->
            [k |-> var_names[given[n]],
             v |-> IF given[n] <= Len(args) THEN args[Len(args) + 1 - given[n]]
                   ELSE Get(kwargs, var_names[given[n]])]]

\* bound_arguments.arguments after Signature.bind: the names that were given
\* a value, in the order of the signature.
BoundArguments(var_names, args, kwargs) ==
    LET given == SelectSeq([i \in 1..Len(var_names) |-> i],
                           LAMBDA i : i <= Len(args) \/ var_names[i] \in KeySet(kwargs))
    IN  [n \in 1..Len(given) |->
            [k |-> var_names[given[n]],
             v |-> IF given[n] <= Len(args) THEN args[given[n]]
                   ELSE Get(kwargs, var_names[given[n]])]]

\* The loop that includes the default of every name that was given no value.
WithDefaults(arguments, var_names) ==
    LET missing == SelectSeq(var_names, LAMBDA name : name \notin KeySet(arguments))
    IN  arguments \o [n \in 1..Len(missing) |-> [k |-> missing[n], v |-> DefaultOf(missing[n])]]

\* self.sigmas: the entries popped from data, in the order of var_names.
SigmasOf(data, var_names) ==
    LET names == SelectSeq(var_names, LAMBDA name : StartsWith(name, "sigma_"))
    IN  [n \in 1..Len(names) |-> [k |-> names[n], v |-> Get(data, names[n])]]

\* self.data once the sigma entries are popped.
DataOf(data, var_names) ==
    SelectSeq(data, LAMBDA e : ~StartsWith(e.k, "sigma_"))

\* value is not 1: 1 is one object, the int 1.
IsNotOne(value) == value # PyInt(1)

\* A variant of AbsoluteSigma that is true whenever sigmas is not empty.
AbsoluteSigma_AnySigma(absolute_sigma, sigmas) ==
    IF absolute_sigma # PyNone THEN absolute_sigma
    ELSE PyBool(Len(sigmas) > 0)

\* The resolution of absolute_sigma.
AbsoluteSigma(absolute_sigma, sigmas) ==
    IF absolute_sigma # PyNone THEN absolute_sigma
    ELSE PyBool(\E n \in 1..Len(sigmas) : IsNotOne(sigmas[n].v))

\* BaseFit.__init__(model, *args, absolute_sigma=..., **kwargs) for a Model m:
\* the attributes of the driver, or the error raised.
BaseFitInit(m, args, absolute_sigma, kwargs) ==
    LET var_names == [i \in 1..Len(ModelVars(m)) |-> ModelVars(m)[i].name]
        inputs == [init_args |-> args, init_kwargs |-> kwargs,
                   init_absolute_sigma |-> absolute_sigma]
    IN  IF ~SignatureOk(var_names) THEN [status |-> "ValueError"] @@ inputs
        ELSE IF BindFails(var_names, args, kwargs) THEN [status |-> "TypeError"] @@ inputs
        ELSE LET arguments == WithDefaults(BoundArguments(var_names, args, kwargs), var_names)
                 sigmas == SigmasOf(arguments, var_names)
             IN  [status         |-> "built",
                  data           |-> DataOf(arguments, var_names),
                  sigmas         |-> sigmas,
                  partial_args   |-> [i \in 1..Len(var_names) |-> Get(arguments, var_names[i])],
                  absolute_sigma |-> AbsoluteSigma(absolute_sigma, sigmas)] @@ inputs

\* A variant of InitialGuesses that lists the values from the last parameter
\* to the first.
InitialGuesses_Reversed(m) ==
    [i \in 1..Len(m.params) |-> m.params[Len(m.params) + 1 - i].value]

\* BaseFit.get_initial_guesses
InitialGuesses(m) == [i \in 1..Len(m.params) |-> m.params[i].value]

\* sympy_to_py(expr, vars, params): the names of the positional arguments of
\* the callable, all variables first, then all parameters
SympyToPy(variables, params) ==
    [i \in 1..Len(variables) |-> variables[i].name]
        \o [i \in 1..Len(params) |-> params[i].name]

\* Model.numerical_chi: the arguments it takes
NumericalChi(m) == SympyToPy(ModelVars(m), m.params)

\* Model.numerical_jacobian: one callable per parameter, the derivative of
\* chi with respect to it (wrt), each taking the arguments of numerical_chi
NumericalJacobian(m) ==
    [j \in 1..Len(m.params) |->
        [wrt |-> m.params[j].name, args |-> SympyToPy(ModelVars(m), m.params)]]

\* functools.partial(func, *bound): the arguments of func that are left
\* free, in order, when func takes the arguments named in args
Partial(args, bound) == SubSeq(args, Len(bound) + 1, Len(args))

\* self.partial_chi of a driver f on the Model m: its free arguments
PartialChi(m, f) == Partial(NumericalChi(m), f.partial_args)

\* self.partial_jacobian: the components with their free arguments
PartialJacobian(m, f) ==
    [j \in 1..Len(NumericalJacobian(m)) |->
        [wrt  |-> NumericalJacobian(m)[j].wrt,
         args |-> Partial(NumericalJacobian(m)[j].args, f.partial_args)]]

---------------------------------------------------------------------------
(* Numbers with arithmetic: a float is the fraction num/den in lowest terms, *)
(* den >= 0; den = 0 stands for inf (num = 1), -inf (num = -1), nan (num = 0) *)

Abs(n) == IF n < 0 THEN -n ELSE n

Sign(n) == IF n < 0 THEN -1 ELSE IF n > 0 THEN 1 ELSE 0

RECURSIVE Gcd(_, _)
Gcd(m, n) == IF n = 0 THEN m ELSE Gcd(n, m % n)

Real(num, den) ==
    IF den = 0 THEN [t |-> "float", num |-> Sign(num), den |-> 0]
    ELSE LET g == Gcd(Abs(num), Abs(den))
         IN  [t |-> "float", num |-> (Sign(den) * num) \div g, den |-> Abs(den) \div g]

NaN == Real(0, 0)

RealMul(p, q) == Real(p.num * q.num, p.den * q.den)

IsSquare(n) == \E r \in 0..n : r * r = n

IntSqrt(n) == CHOOSE r \in 0..n : r * r = n

\* A variant of Sqrt that gives its argument back.
Sqrt_Identity(v) == v

\* np.sqrt of one number: exact where the root is a fraction, the root kept
\* as such where it is not, nan below zero.
Sqrt(v) ==
    IF v.den = 0 THEN (IF v.num > 0 THEN v ELSE NaN)
    ELSE IF v.num < 0 THEN NaN
    ELSE IF IsSquare(v.num) /\ IsSquare(v.den) THEN Real(IntSqrt(v.num), IntSqrt(v.den))
    ELSE [t |-> "float", sqrt |-> v]

\* matrix * number, element by element
MatScale(matrix, factor) ==
    [i \in 1..Len(matrix) |-> [j \in 1..Len(matrix[i]) |-> RealMul(matrix[i][j], factor)]]

RECURSIVE SumSquares(_)
\* np.sum(fvec**2) for an array of whole numbers
SumSquares(fvec) ==
    IF fvec = <<>> THEN 0 ELSE fvec[1] * fvec[1] + SumSquares(Tail(fvec))

---------------------------------------------------------------------------
(* ParameterDict *)

Min(m, n) == IF m < n THEN m ELSE n

\* dict(zip(keys, values))
ZipDict(keys, values) ==
    Update(<<>>, [i \in 1..Min(Len(keys), Len(values)) |-> [k |-> keys[i], v |-> values[i]]])

\* np.diagonal
Diagonal(matrix) == [i \in 1..Len(matrix) |-> matrix[i][i]]

\* A variant of ParameterDictInit that keeps no standard deviation when there
\* is no covariance.
ParameterDictInit_NoStdevs(params, popt, pcov) ==
    LET names == [i \in 1..Len(params) |-> params[i].name]
        stdevs == IF pcov # PyNone
                  THEN [i \in 1..Len(pcov.v) |-> Sqrt(Diagonal(pcov.v)[i])]
                  ELSE <<>>
    IN  [status      |-> "built",
         params      |-> params,
         params_dict |-> ZipDict(names, params),
         popt        |-> ZipDict(names, popt),
         pstdev      |-> ZipDict(names, stdevs),
         pcov        |-> pcov]

\* ParameterDict.__init__
ParameterDictInit(params, popt, pcov) ==
    LET names == [i \in 1..Len(params) |-> params[i].name]
        stdevs == IF pcov # PyNone
                  THEN [i \in 1..Len(pcov.v) |-> Sqrt(Diagonal(pcov.v)[i])]
                  ELSE [i \in 1..Len(params) |-> PyNone]
    IN  [status      |-> "built",
         params      |-> params,
         params_dict |-> ZipDict(names, params),
         popt        |-> ZipDict(names, popt),
         pstdev      |-> ZipDict(names, stdevs),
         pcov        |-> pcov]

Return(value) == [kind |-> "return", value |-> value]

Raise(error, what) == [kind |-> "raise", error |-> error, what |-> what]

\* A variant of DunderGetattr that gives None for a name it does not know.
DunderGetattr_NoneForUnknown(pd, name) ==
    IF name \in KeySet(pd.popt) THEN Return(Get(pd.popt, name))
    ELSE IF EndsWith(name, "_stdev")
    THEN LET param_name == SubSeq(name, 1, Len(name) - Len("_stdev"))
         IN  IF param_name \in KeySet(pd.pstdev) THEN Return(Get(pd.pstdev, param_name))
             ELSE Return(PyNone)
    ELSE Return(PyNone)

\* A variant of DunderGetattr that tries the suffix before the fitted values.
DunderGetattr_SuffixFirst(pd, name) ==
    IF /\ EndsWith(name, "_stdev")
       /\ SubSeq(name, 1, Len(name) - Len("_stdev")) \in KeySet(pd.pstdev)
    THEN Return(Get(pd.pstdev, SubSeq(name, 1, Len(name) - Len("_stdev"))))
    ELSE IF name \in KeySet(pd.popt) THEN Return(Get(pd.popt, name))
    ELSE Raise("AttributeError", name)

\* ParameterDict.__getattr__(name)
DunderGetattr(pd, name) ==
    IF name \in KeySet(pd.popt) THEN Return(Get(pd.popt, name))
    ELSE IF EndsWith(name, "_stdev")
    THEN LET param_name == SubSeq(name, 1, Len(name) - Len("_stdev"))
         IN  IF param_name \in KeySet(pd.pstdev) THEN Return(Get(pd.pstdev, param_name))
             ELSE Raise("AttributeError", param_name)
    ELSE Raise("AttributeError", name)

\* The names getattr finds on the object before __getattr__ is asked: the
\* methods the class defines.
ClassAttributes == {"keys", "get_value", "get_stdev"}

\* getattr(pd, name)
GetAttr(pd, name) ==
    IF name \in ClassAttributes THEN Return([t |-> "method", v |-> name])
    ELSE DunderGetattr(pd, name)

\* ParameterDict.__getitem__(key)
GetItem(pd, key) == GetAttr(pd, key)

\* ParameterDict.__iter__, run to its end
Iterate(pd) == Return(pd.params)

\* ParameterDict.get_value(param)
GetValue(pd, param) ==
    IF param.name \in KeySet(pd.popt) THEN Return(Get(pd.popt, param.name))
    ELSE Raise("KeyError", param.name)

\* ParameterDict.get_stdev(param)
GetStdev(pd, param) ==
    IF param.name \in KeySet(pd.pstdev) THEN Return(Get(pd.pstdev, param.name))
    ELSE Raise("KeyError", param.name)

---------------------------------------------------------------------------
(* FitResults and NumericalLeastSquares.execute *)

\* FitResults.__init__ (sigma is left at its default)
FitResultsInit(params, popt, pcov, infodic, mesg, ier, ydata) ==
    [status         |-> "built",
     infodict       |-> infodic,
     status_message |-> mesg,
     iterations     |-> ier,
     ydata          |-> ydata,
     params         |-> ParameterDictInit(params, popt, pcov),
     sigma          |-> PyNone]

\* sum of the elements of an array of whole numbers
RECURSIVE Sum(_)
Sum(s) == IF s = <<>> THEN 0 ELSE s[1] + Sum(Tail(s))

\* FitResults.r_squared: 1 - ss_err/ss_tot, ss_tot being the sum over ydata
\* of (y - mean)**2, which is (n * sum(y**2) - sum(y)**2) / n
RSquared(res) ==
    IF res.ydata = PyNone THEN Return(NaN)
    ELSE IF res.ydata.t # "ndarray" THEN Raise("AttributeError", "mean")
    ELSE LET ss_err == SumSquares(Get(res.infodict, "fvec").v)
             n == Len(res.ydata.v)
             spread == n * SumSquares(res.ydata.v) - Sum(res.ydata.v) * Sum(res.ydata.v)
         IN  IF n = 0 THEN Return(NaN)
             ELSE Return(Real(spread - ss_err * n, spread))

\* '{:e}'.format(value) if value is not None else 'None'
FormatE(value) == IF value = PyNone THEN "None" ELSE [e |-> value]

\* FitResults.__str__: the lines of the text
Str(res) ==
    LET r_squared == RSquared(res)
    IN  IF "nfev" \notin KeySet(res.infodict) THEN Raise("KeyError", "nfev")
        ELSE IF r_squared.kind = "raise" THEN r_squared
        ELSE Return(<<"Parameter Value        Standard Deviation">>
                    \o [i \in 1..Len(res.params.params) |->
                           <<res.params.params[i].name,
                             FormatE(GetValue(res.params, res.params.params[i]).value),
                             FormatE(GetStdev(res.params, res.params.params[i]).value)>>]
                    \o << <<"Fitting status message:", res.status_message>>,
                          <<"Number of iterations:", Get(res.infodict, "nfev")>>,
                          <<"Regression Coefficient:", r_squared.value>> >>)

\* The read-only properties of FitResults
Properties == {"infodict", "status_message", "iterations", "params", "r_squared"}

\* getattr(res, name) for a property: the object the FitResults holds
ReadProperty(res, name) ==
    IF name = "r_squared" THEN RSquared(res) ELSE Return(res[name])

\* One call of leastsqbound: its arguments and what it does (result).
\* Without Dfun the core differentiates numerically.
CoreCall(m, f, with_Dfun, result) ==
    [func   |-> [partial_chi |-> f.partial_args],
     x0     |-> InitialGuesses(m),
     bounds |-> Bounds(m),
     Dfun   |-> IF with_Dfun THEN [partial_jacobian |-> f.partial_args] ELSE PyNone,
     result |-> result]

\* len(value)
HasLen(value) == value.t = "ndarray"

\* A variant of YData that takes the data of the first dependent variable.
YData_Dependent(m, f) ==
    IF Len(m.dependent_vars) = 1 THEN Get(f.data, m.dependent_vars[1].name) ELSE PyNone

\* The ydata handed to FitResults.
YData(m, f) ==
    IF Len(m.dependent_vars) = 1 THEN Values(f.data)[1] ELSE PyNone

\* A variant of ScaleFactor that always rescales.
ScaleFactor_Always(absolute_sigma, fvec, n, p) == Real(SumSquares(fvec), n - p)

\* s_sq
ScaleFactor(absolute_sigma, fvec, n, p) ==
    IF absolute_sigma = PyBool(TRUE) THEN Real(1, 1)
    ELSE Real(SumSquares(fvec), n - p)

\* What execute does with the output of the core: the FitResults it
\* returns, or the error raised on the way.
PostProcess(m, f, core_calls, out) ==
    LET y == IF m.dependent_vars = <<>> THEN PyNone
             ELSE Get(f.data, m.dependent_vars[1].name)
    IN  IF f.absolute_sigma # PyBool(TRUE) /\ m.dependent_vars = <<>>
        THEN [status |-> "raised", error |-> "IndexError", calls |-> core_calls]
        ELSE IF f.absolute_sigma # PyBool(TRUE) /\ ~HasLen(y)
        THEN [status |-> "raised", error |-> "TypeError", calls |-> core_calls]
        ELSE LET s_sq == ScaleFactor(f.absolute_sigma, Get(out.infodic, "fvec").v,
                                     IF HasLen(y) THEN Len(y.v) ELSE 0, Len(out.popt))
                 pcov == IF out.cov_x # PyNone
                         THEN PyArray(MatScale(out.cov_x.v, s_sq)) ELSE PyNone
             IN  [status |-> "returned", calls |-> core_calls,
                  result |-> FitResultsInit(m.params, out.popt, pcov, out.infodic,
                                            out.mesg, out.ier, YData(m, f))]

\* A variant of ExecuteRun that hands the analytic Jacobian to the second
\* call as well.
ExecuteRun_RetryWithDfun(m, f, r1, r2) ==
    LET first == CoreCall(m, f, TRUE, r1)
        second == CoreCall(m, f, TRUE, r2)
    IN  IF r1.kind = "ok" THEN PostProcess(m, f, <<first>>, r1.out)
        ELSE IF r1.kind = "ValueError"
        THEN IF r2.kind = "ok" THEN PostProcess(m, f, <<first, second>>, r2.out)
             ELSE [status |-> "raised", error |-> r2.kind, calls |-> <<first, second>>]
        ELSE [status |-> "raised", error |-> r1.kind, calls |-> <<first>>]

\* NumericalLeastSquares.execute, given what the first call of the core does
\* (r1) and what a second call does (r2).
ExecuteRun(m, f, r1, r2) ==
    LET first == CoreCall(m, f, TRUE, r1)
        second == CoreCall(m, f, FALSE, r2)
    IN  IF r1.kind = "ok" THEN PostProcess(m, f, <<first>>, r1.out)
        ELSE IF r1.kind = "ValueError"
        THEN IF r2.kind = "ok" THEN PostProcess(m, f, <<first, second>>, r2.out)
             ELSE [status |-> "raised", error |-> r2.kind, calls |-> <<first, second>>]
        ELSE [status |-> "raised", error |-> r1.kind, calls |-> <<first>>]

---------------------------------------------------------------------------
(* numpy arrays with a shape: the elements in row-major order *)

NdArray(shape, v) == [t |-> "ndarray", v |-> v, shape |-> shape]

RECURSIVE Product(_)
\* The number of elements of an array of the shape
Product(shape) == IF shape = <<>> THEN 1 ELSE shape[1] * Product(Tail(shape))

Reverse(s) == [i \in 1..Len(s) |-> s[Len(s) + 1 - i]]

RECURSIVE Unravel(_, _)
\* The index along each axis of the n-th element (from 0) in row-major order
Unravel(n, shape) ==
    IF shape = <<>> THEN <<>>
    ELSE <<n \div Product(Tail(shape))>> \o Unravel(n % Product(Tail(shape)), Tail(shape))

RECURSIVE Ravel(_, _)
\* The place (from 0) in row-major order of the element at the index
Ravel(index, shape) ==
    IF shape = <<>> THEN 0
    ELSE index[1] * Product(Tail(shape)) + Ravel(Tail(index), Tail(shape))

\* ndarray.T: the axes reversed
Transpose(array) ==
    LET shape == Reverse(array.shape)
    IN  NdArray(shape, [n \in 1..Len(array.v) |->
                           array.v[Ravel(Reverse(Unravel(n - 1, shape)), array.shape) + 1]])

\* ndarray.reshape(-1)
ReshapeFlat(array) == NdArray(<<Len(array.v)>>, array.v)

\* ndarray.reshape(rows, -1), where the size is a multiple of rows
ReshapeRows(array, rows) == NdArray(<<rows, Len(array.v) \div rows>>, array.v)

\* np.ones_like(array) * number
OnesTimes(array, number) == NdArray(array.shape, [n \in 1..Len(array.v) |-> number])

---------------------------------------------------------------------------
(* LeastSquares *)

\* A variant of Flatten that takes the variables on the first or last axis of
\* a one-dimensional x as well.
Flatten_AnyDim(M, x, y) ==
    IF (\A i \in 1..Len(x.shape) : x.shape[i] # M) /\ Len(x.shape) # 1
    THEN Raise("Exception", "number of vars does not match the shape of the input x data.")
    ELSE IF Len(x.shape) = 1 /\ x.shape = y.shape
    THEN Return(<<x, y>>)
    ELSE IF x.shape[Len(x.shape)] = M /\ SubSeq(x.shape, 1, Len(x.shape) - 1) = y.shape
    THEN Return(<<ReshapeRows(Transpose(x), M), ReshapeFlat(Transpose(y))>>)
    ELSE IF x.shape[1] = M /\ Tail(x.shape) = y.shape
    THEN Return(<<ReshapeRows(x, M), ReshapeFlat(y)>>)
    ELSE Raise("Exception", "For multidimensional data, the first or the last dimension of xdata is expected to represent the different variables, and the shape of the remaining dimensions should match that of ydata.")

\* A variant of Flatten that tries the variables on the first axis before it
\* tries them on the last.
Flatten_FirstAxisFirst(M, x, y) ==
    IF (\A i \in 1..Len(x.shape) : x.shape[i] # M) /\ Len(x.shape) # 1
    THEN Raise("Exception", "number of vars does not match the shape of the input x data.")
    ELSE IF Len(x.shape) = 1
    THEN IF x.shape # y.shape
         THEN Raise("Exception", "x and y must have the same shape.")
         ELSE Return(<<x, y>>)
    ELSE IF x.shape[1] = M /\ Tail(x.shape) = y.shape
    THEN Return(<<ReshapeRows(x, M), ReshapeFlat(y)>>)
    ELSE IF x.shape[Len(x.shape)] = M /\ SubSeq(x.shape, 1, Len(x.shape) - 1) = y.shape
    THEN Return(<<ReshapeRows(Transpose(x), M), ReshapeFlat(Transpose(y))>>)
    ELSE Raise("Exception", "For multidimensional data, the first or the last dimension of xdata is expected to represent the different variables, and the shape of the remaining dimensions should match that of ydata.")

\* LeastSquares._flatten(x, y), M being len(self.model.vars)
Flatten(M, x, y) ==
    IF (\A i \in 1..Len(x.shape) : x.shape[i] # M) /\ Len(x.shape) # 1
    THEN Raise("Exception", "number of vars does not match the shape of the input x data.")
    ELSE IF Len(x.shape) = 1
    THEN IF x.shape # y.shape
         THEN Raise("Exception", "x and y must have the same shape.")
         ELSE Return(<<x, y>>)
    ELSE IF x.shape[Len(x.shape)] = M /\ SubSeq(x.shape, 1, Len(x.shape) - 1) = y.shape
    THEN Return(<<ReshapeRows(Transpose(x), M), ReshapeFlat(Transpose(y))>>)
    ELSE IF x.shape[1] = M /\ Tail(x.shape) = y.shape
    THEN Return(<<ReshapeRows(x, M), ReshapeFlat(y)>>)
    ELSE Raise("Exception", "For multidimensional data, the first or the last dimension of xdata is expected to represent the different variables, and the shape of the remaining dimensions should match that of ydata.")

\* len(sigma) raises TypeError: sigma is a number
IsScalar(sigma) == sigma.t # "ndarray"

\* LeastSquares.__init__(model, x, y, sigma, absolute_sigma) for a Model m:
\* the attributes of the driver, or the error raised.
LeastSquaresInit(m, x, y, sigma, absolute_sigma) ==
    LET base == BaseFitInit(m, <<>>, PyNone, <<>>)
        inputs == [cls |-> "LeastSquares", init_x |-> x, init_y |-> y,
                   init_sigma |-> sigma, init_absolute_sigma |-> absolute_sigma]
        flat == Flatten(Len(ModelVars(m)), x, y)
    IN  IF base.status # "built" THEN [status |-> base.status] @@ inputs
        ELSE IF flat.kind = "raise"
        THEN [status |-> flat.error, what |-> flat.what] @@ inputs
        ELSE IF sigma # PyNone /\ ~IsScalar(sigma) /\ y.shape # sigma.shape
        THEN [status |-> "Exception", what |-> "y and sigma must have the same shape."] @@ inputs
        ELSE [status         |-> "built",
              xdata          |-> flat.value[1],
              ydata          |-> flat.value[2],
              absolute_sigma |-> IF absolute_sigma # PyNone THEN absolute_sigma
                                 ELSE PyBool(sigma # PyNone),
              sigma          |-> IF sigma = PyNone THEN PyInt(1)
                                 ELSE IF IsScalar(sigma) THEN OnesTimes(flat.value[2], sigma)
                                 ELSE ReshapeFlat(sigma),
              data           |-> base.data,
              sigmas         |-> base.sigmas,
              partial_args   |-> base.partial_args] @@ inputs

---------------------------------------------------------------------------
(* Minimize and Maximize *)

\* Minimize.__init__(model, xdata, ydata, constraints) for a Model m, in
\* class cls (Minimize or Maximize, which inherits it)
MinimizeInit(cls, m, xdata, ydata, constraints) ==
    LET base == BaseFitInit(m, <<>>, PyNone, <<>>)
        inputs == [cls |-> cls, init_xdata |-> xdata, init_ydata |-> ydata,
                   init_constraints |-> constraints]
    IN  IF base.status # "built" THEN [status |-> base.status] @@ inputs
        ELSE [status         |-> "built",
              xdata          |-> IF xdata # PyNone THEN xdata ELSE PyArray(<<>>),
              ydata          |-> IF ydata # PyNone THEN ydata ELSE PyArray(<<>>),
              constraints    |-> IF constraints # PyNone /\ constraints.v # <<>>
                                 THEN constraints.v ELSE <<>>,
              data           |-> base.data,
              sigmas         |-> base.sigmas,
              partial_args   |-> base.partial_args,
              absolute_sigma |-> base.absolute_sigma] @@ inputs

\* The dict types of get_constraints: from the class of a relation to the
\* type of the constraint
Types ==
    <<[k |-> "Eq", v |-> "eq"], [k |-> "Gt", v |-> "ineq"], [k |-> "Ge", v |-> "ineq"],
      [k |-> "Ne", v |-> "ineq"], [k |-> "Lt", v |-> "ineq"], [k |-> "Le", v |-> "ineq"]>>

\* A variant of ConstraintType that has Ne as an equality.
ConstraintType_NeAsEq(class) == IF class = "Ne" THEN "eq" ELSE Get(Types, class)

\* types[constraint.__class__], for a class that is a key
ConstraintType(class) == Get(Types, class)

\* Minimize.get_constraints
GetConstraints(f) ==
    IF \E i \in 1..Len(f.constraints) : f.constraints[i].class \notin KeySet(Types)
    THEN LET first == CHOOSE i \in 1..Len(f.constraints) :
                         /\ f.constraints[i].class \notin KeySet(Types)
                         /\ \A j \in 1..(i - 1) : f.constraints[j].class \in KeySet(Types)
         IN  Raise("KeyError", f.constraints[first].class)
    ELSE Return([i \in 1..Len(f.constraints) |->
                    [type |-> ConstraintType(f.constraints[i].class),
                     fun  |-> "lhs",
                     jac  |-> "make_jac(lhs)",
                     args |-> <<f.xdata, f.constraints[i]>>]])

\* func(x, p) for the functions handed to error: p[0]*x + p[1] and p[0]*x**2
Apply(func, xs, params) ==
    IF func = "linear" THEN PyArray([i \in 1..Len(xs.v) |-> params[1] * xs.v[i] + params[2]])
    ELSE PyArray([i \in 1..Len(xs.v) |-> params[1] * xs.v[i] * xs.v[i]])

\* left - right for two one-dimensional arrays, by the broadcasting rules
Subtract(left, right) ==
    IF Len(left.v) = Len(right.v)
    THEN Return(PyArray([i \in 1..Len(left.v) |-> left.v[i] - right.v[i]]))
    ELSE IF Len(right.v) = 1
    THEN Return(PyArray([i \in 1..Len(left.v) |-> left.v[i] - right.v[1]]))
    ELSE IF Len(left.v) = 1
    THEN Return(PyArray([i \in 1..Len(right.v) |-> left.v[1] - right.v[i]]))
    ELSE Raise("ValueError", "operands could not be broadcast together")

\* The truth of array != np.array([]).  Against an array of no or one element
\* the comparison broadcasts to an empty array, which is false.  Against a
\* longer array the shapes do not broadcast: a numpy of the kind "scalar"
\* gives the scalar True, one of the kind "raises" raises ValueError.
NotEmpty(numpy, array) ==
    IF Len(array.v) <= 1 THEN Return(FALSE)
    ELSE IF numpy = "scalar" THEN Return(TRUE)
    ELSE Raise("ValueError", "operands could not be broadcast together")

\* Minimize.error(p, func, x, y)
MinimizeError(numpy, params, func, xs, ys) ==
    LET xtest == NotEmpty(numpy, xs)
        ytest == NotEmpty(numpy, ys)
    IN  IF xtest.kind = "raise" THEN xtest
        ELSE IF ~xtest.value THEN Return(Apply(func, xs, params))
        ELSE IF ytest.kind = "raise" THEN ytest
        ELSE IF ~ytest.value THEN Return(Apply(func, xs, params))
        ELSE Subtract(Apply(func, xs, params), ys)

\* A variant of MaximizeError that leaves the sign.
MaximizeError_SameSign(numpy, params, func, xs, ys) ==
    MinimizeError(numpy, params, func, xs, ys)

\* Maximize.error(p, func, x, y)
MaximizeError(numpy, params, func, xs, ys) ==
    LET error == MinimizeError(numpy, params, func, xs, ys)
    IN  IF error.kind = "raise" THEN error
        ELSE Return(PyArray([i \in 1..Len(error.value.v) |-> 0 - error.value.v[i]]))

\* The attributes a driver of the class has: the methods of the class and of
\* its bases, and what __init__ sets
Attributes(cls) ==
    {"execute", "get_initial_guesses",
     "model", "data", "sigmas", "partial_chi", "partial_jacobian", "absolute_sigma"}
        \cup {"error", "get_constraints", "xdata", "ydata", "constraints"}
        \cup (IF cls = "Maximize" THEN {"eval_jacobian"} ELSE {})

\* Minimize.execute(), given what minimize hands back (ans): the FitResults
\* it returns, or the error raised on the way.  The arguments of minimize are
\* evaluated first, in the order written.
MinimizeExecuteRun(m, f, ans) ==
    LET missing == {name \in {"scipy_func", "get_bounds", "eval_jacobian"} :
                       name \notin Attributes(f.cls)}
        cons == GetConstraints(f)
    IN  IF "scipy_func" \in missing
        THEN [status |-> "raised", error |-> "AttributeError", what |-> "scipy_func", calls |-> <<>>]
        ELSE IF "get_bounds" \in missing
        THEN [status |-> "raised", error |-> "AttributeError", what |-> "get_bounds", calls |-> <<>>]
        ELSE IF cons.kind = "raise"
        THEN [status |-> "raised", error |-> cons.error, what |-> cons.what, calls |-> <<>>]
        ELSE IF "eval_jacobian" \in missing
        THEN [status |-> "raised", error |-> "AttributeError", what |-> "eval_jacobian", calls |-> <<>>]
        ELSE LET call == [x0 |-> InitialGuesses(m), method |-> "SLSQP",
                          constraints |-> cons.value, result |-> ans]
                 infodic == <<[k |-> "fvec", v |-> ans.fun], [k |-> "nfev", v |-> ans.nfev]>>
             IN  [status |-> "returned", calls |-> <<call>>,
                  result |-> FitResultsInit(m.params, ans.x, PyNone, infodic,
                                            ans.message, ans.nit, f.ydata)]

---------------------------------------------------------------------------
(* The symbols and expressions models are built from *)

a == Parameter("a", PyFloat(2), PyNone, PyNone, TRUE)

b == Parameter("b", PyFloat(-2), PyNone, PyNone, TRUE)

c == Parameter("c", PyFloat(0), PyFloat(-5), PyFloat(5), FALSE)

t == Variable("t")

x == Variable("x")

ExprPool == <<(<<b, x, a>>), (<<a, t, c>>), (<<x, t, x>>), (<<c, b, a, x, t>>),
              (<<t>>), (<<a>>), (<<x, b>>)>>

\* n expressions of the pool: the first one and the distance to the next.
Exprs(n, first, step) ==
    [i \in 1..n |-> ExprPool[((first + (i - 1) * step) % Len(ExprPool)) + 1]]

\* The names a dependent variable is given by keyword, in call order.
KwNames == {<<>>, <<"y">>, <<"z">>, <<"y_1">>, <<"y", "z">>, <<"z", "y">>,
            <<"y_1", "y">>, <<"z", "y_1">>}

Kwargs(names, exprs) == [j \in 1..Len(names) |-> [k |-> names[j], v |-> exprs[j]]]

MaxExprs == 10

\* The Models a fit driver is built on: the number of positional
\* expressions, the first one, the distance to the next, the keyword names.
FitModels == {<<1, 0, 0, <<>> >>, <<1, 5, 0, <<>> >>, <<2, 0, 1, <<>> >>,
              <<0, 0, 0, <<"y">> >>, <<1, 0, 5, <<"y_1">> >>}

sigma_x == Variable("sigma_x")

sigma_y == Variable("sigma_y")

\* Models with a variable whose own name starts with sigma_: the positional
\* expressions and the keyword ones.  The second has the name of the
\* uncertainty of its dependent variable y.
SigmaModels == {<< << <<a, sigma_x>> >>, <<>> >>,
                << <<>>, <<[v |-> <<a, sigma_y>>, k |-> "y"]>> >>}

xdata == PyArray(<<1, 2, 3, 4>>)

ydata == PyArray(<<2, 4, 6, 8>>)

\* An array of one element, which numpy broadcasts against the others
zdata == PyArray(<<5>>)

MaxArgs == 2

\* The positional data of a fit driver.
DataArgs == UNION {[1..n -> {xdata, ydata, zdata}] : n \in 0..MaxArgs}

\* The keyword data of a fit driver on Model m: none, or one value for a
\* variable of m or for the unknown name w.
DataKwargs(m) ==
    {<<>>} \cup
    {<<[k |-> name, v |-> value]>> :
        name \in {ModelVars(m)[i].name : i \in 1..Len(ModelVars(m))} \cup {"w"},
        value \in {ydata, PyInt(1), Real(1, 1)}}

MaxOutputs == 3

\* What one call of the core may hand back for p parameters.
CoreOutput(p, n) ==
    [popt    |-> [i \in 1..p |-> Real(10 * n + i, 1)],
     cov_x   |-> IF n = 1 THEN PyNone
                 ELSE PyArray([i \in 1..p |-> [j \in 1..p |->
                                  IF i = j THEN Real(n * i, 1) ELSE Real(-1, 1)]]),
     infodic |-> <<[k |-> "fvec", v |-> PyArray(<<n - 2, 2 * (n - 2)>>)],
                   [k |-> "nfev", v |-> PyInt(5 + n)]>>,
     mesg    |-> "converged",
     ier     |-> n]

\* What one call of the core may do: return, or raise ValueError (as for a
\* Jacobian with nan in it) or another error.
CoreResults(p) ==
    {[kind |-> "ValueError"], [kind |-> "TypeError"]}
        \cup {[kind |-> "ok", out |-> CoreOutput(p, n)] : n \in 1..MaxOutputs}

NoModel == [model_dict |-> "none"]

NoView == [prop |-> "none"]

NoFit == [status |-> "none"]

NoRun == [status |-> "none"]

NoResults == [status |-> "none"]

NoDict == [status |-> "none"]

NoLookup == [op |-> "none"]

---------------------------------------------------------------------------
(* Operations on a Model *)

\* Model(*args, **kwargs)
ModelNew(args, kwargs) ==
    /\ model = NoModel
    /\ model' = InitFromDict(ModelDictOf(args, kwargs))
                   @@ [init_args |-> args, init_kwargs |-> kwargs]
    /\ view' = NoView
    /\ UNCHANGED <<fit, run, fit_results, pdict, lookup>>

\* Model.from_dict(model_dict): cls() makes an empty Model, which
\* _init_from_dict then fills.
ModelFromDict(model_dict) ==
    /\ model = NoModel
    /\ model' = InitFromDict(model_dict) @@ [init_args |-> <<>>, init_kwargs |-> <<>>]
    /\ view' = NoView
    /\ UNCHANGED <<fit, run, fit_results, pdict, lookup>>

\* reading Model.vars
ReadVars ==
    /\ model # NoModel
    /\ view' = [prop |-> "vars", value |-> ModelVars(model)]
    /\ UNCHANGED <<model, fit, run, fit_results, pdict, lookup>>

\* reading Model.bounds
ReadBounds ==
    /\ model # NoModel
    /\ view' = [prop |-> "bounds", value |-> Bounds(model)]
    /\ UNCHANGED <<model, fit, run, fit_results, pdict, lookup>>

---------------------------------------------------------------------------
(* Operations on a fit driver *)

\* NumericalLeastSquares(model, *args, absolute_sigma=..., **kwargs)
FitNew(args, absolute_sigma, kwargs) ==
    /\ model # NoModel
    /\ fit = NoFit
    /\ fit' = BaseFitInit(model, args, absolute_sigma, kwargs)
    /\ UNCHANGED <<model, view, run, fit_results, pdict, lookup>>

\* A variant of Execute that drops the retained result when the call fails.
Execute_ForgetOnError(r1, r2) ==
    /\ fit.status = "built"
    /\ run' = ExecuteRun(model, fit, r1, r2)
    /\ fit_results' = IF run'.status = "returned" THEN run'.result ELSE NoResults
    /\ UNCHANGED <<model, view, fit, pdict, lookup>>

\* NumericalLeastSquares.execute()
Execute(r1, r2) ==
    /\ fit.status = "built"
    /\ run' = ExecuteRun(model, fit, r1, r2)
    /\ fit_results' = IF run'.status = "returned" THEN run'.result ELSE fit_results
    /\ UNCHANGED <<model, view, fit, pdict, lookup>>

---------------------------------------------------------------------------
(* Operations on a FitResults *)

\* fit_results.<name>
ResultsRead(name) ==
    /\ fit_results.status = "built"
    /\ view' = [prop |-> name, value |-> ReadProperty(fit_results, name)]
    /\ UNCHANGED <<model, fit, run, fit_results, pdict, lookup>>

\* str(fit_results)
ResultsStr ==
    /\ fit_results.status = "built"
    /\ view' = [prop |-> "__str__", value |-> Str(fit_results)]
    /\ UNCHANGED <<model, fit, run, fit_results, pdict, lookup>>

\* fit_results.<name> = value: a property without a setter
ResultsAssign(name, value) ==
    /\ fit_results.status = "built"
    /\ view' = [prop |-> name, assigned |-> value,
                value |-> Raise("AttributeError", "can't set attribute")]
    /\ UNCHANGED <<model, fit, run, fit_results, pdict, lookup>>

\* d[key] = value on the dict d the getter infodict returned last: d is the
\* dict the FitResults holds
ResultsUse(key, value) ==
    /\ fit_results.status = "built"
    /\ view.prop = "infodict"
    /\ "assigned" \notin DOMAIN view
    /\ view.value = Return(fit_results.infodict)
    /\ fit_results' = [fit_results EXCEPT !.infodict = Put(@, key, value)]
    /\ view' = [view EXCEPT !.value = Return(fit_results'.infodict)]
    /\ UNCHANGED <<model, fit, run, pdict, lookup>>

---------------------------------------------------------------------------
(* Operations on a LeastSquares driver *)

MaxNdim == 3

\* The lengths of an axis
Dims == {1, 2}

\* The shapes of up to n axes
Shapes(n) == UNION {[1..k -> Dims] : k \in 0..n}

\* The array of a shape whose elements are their own places in it, from 1
Arange(shape) == NdArray(shape, [n \in 1..Product(shape) |-> n])

\* The values given for sigma along with a y of the shape: none, a number, an
\* array of the shape of y, an array of another shape with as many elements
Sigmas(shape) ==
    {PyNone, PyInt(1), Real(1, 2), Arange(shape), Arange(shape \o <<1>>)}

\* The sigma and absolute_sigma given along with a y of the shape
SigmaArgs(shape) ==
    (Sigmas(shape) \X {PyNone})
        \cup {<<PyNone, PyBool(TRUE)>>, <<Arange(shape), PyBool(FALSE)>>}

\* LeastSquares(model, x, y, sigma, absolute_sigma)
LSNew(xarray, yarray, sigma, absolute_sigma) ==
    /\ model # NoModel
    /\ fit = NoFit
    /\ fit' = LeastSquaresInit(model, xarray, yarray, sigma, absolute_sigma)
    /\ UNCHANGED <<model, view, run, fit_results, pdict, lookup>>

---------------------------------------------------------------------------
(* Operations on a Minimize or Maximize driver *)

\* The Models a Minimize is built on (see FitModels)
MinModels == {<<1, 0, 0, <<>> >>, <<0, 0, 0, <<"y">> >>}

\* The classes of what is given as a constraint: the six relations, a
\* conjunction, a bare expression
ConstraintClasses == <<"Eq", "Gt", "Ge", "Ne", "Lt", "Le", "And", "Add">>

MaxConstraints == 3

\* n constraints, of the classes from the first on
Constraints(n, first) ==
    [i \in 1..n |-> [class |-> ConstraintClasses[((first + i - 1) % Len(ConstraintClasses)) + 1],
                     lhs   |-> <<a, b>>,
                     rhs   |-> i]]

\* What is given for constraints: nothing, or a list
ConstraintArgs ==
    {PyNone} \cup {PyList(Constraints(n, first)) : n \in 0..MaxConstraints,
                                                  first \in 0..(Len(ConstraintClasses) - 1)}

\* What is given for xdata and ydata
MinData == {<<PyNone, PyNone>>, <<xdata, PyNone>>, <<xdata, ydata>>}

\* The arrays error is called with
ErrorArrays == {PyArray(<<>>), PyArray(<<3>>), PyArray(<<1, 2>>)}

\* What minimize hands back for p parameters
OptimizeResult(p) ==
    [x |-> [i \in 1..p |-> Real(i, 1)], fun |-> Real(1, 4), nfev |-> PyInt(12),
     message |-> "Optimization terminated successfully.", nit |-> 4]

\* Minimize(model, xdata, ydata, constraints), Maximize(...)
MinNew(cls, xarray, yarray, constraints) ==
    /\ model # NoModel
    /\ fit = NoFit
    /\ fit' = MinimizeInit(cls, model, xarray, yarray, constraints)
    /\ UNCHANGED <<model, view, run, fit_results, pdict, lookup>>

\* fit.get_constraints()
CallGetConstraints ==
    /\ fit.status = "built"
    /\ view' = [prop |-> "get_constraints", value |-> GetConstraints(fit)]
    /\ UNCHANGED <<model, fit, run, fit_results, pdict, lookup>>

\* Minimize.error(fit, p, func, x, y) and Maximize.error(fit, p, func, x, y)
\* on the same arguments, under one numpy
CallError(numpy, params, func, xs, ys) ==
    /\ fit.status = "built"
    /\ fit.cls = "Maximize"
    /\ view' = [prop |-> "error", numpy |-> numpy, p |-> params, func |-> func,
                x |-> xs, y |-> ys,
                Minimize |-> MinimizeError(numpy, params, func, xs, ys),
                Maximize |-> MaximizeError(numpy, params, func, xs, ys)]
    /\ UNCHANGED <<model, fit, run, fit_results, pdict, lookup>>

\* fit.execute()
MinExecute(ans) ==
    /\ fit.status = "built"
    /\ run' = MinimizeExecuteRun(model, fit, ans)
    /\ fit_results' = IF run'.status = "returned" THEN run'.result ELSE fit_results
    /\ UNCHANGED <<model, view, fit, pdict, lookup>>

---------------------------------------------------------------------------
(* Operations on a ParameterDict *)

\* The names parameters are drawn from: two plain names, a name that ends
\* with the suffix of a standard deviation, the name of a method of the
\* class, a name that becomes one with the suffix, and that name with the
\* suffix.
PDNames == {"a", "b", "a_stdev", "keys", "get", "get_stdev"}

MaxParams == 2

RECURSIVE DistinctSeqs(_, _)
\* The sequences of up to n distinct elements of S
DistinctSeqs(S, n) ==
    IF n = 0 THEN {<<>>}
    ELSE LET shorter == DistinctSeqs(S, n - 1)
         IN  shorter \cup
             {Append(q[1], q[2]) :
                 q \in {r \in shorter \X S :
                           /\ Len(r[1]) = n - 1
                           /\ \A i \in 1..Len(r[1]) : r[1][i] # r[2]}}

PDParam(name) == Parameter(name, PyFloat(1), PyNone, PyNone, FALSE)

\* The parameter lists: distinct names, in any order, at least one
PDParamLists ==
    {[i \in 1..Len(names) |-> PDParam(names[i])] :
        names \in DistinctSeqs(PDNames, MaxParams) \ {<<>>}}

\* Fitted values and variances: a square, a number that is no square, a
\* negative number, a fraction, a one
PDNumbers == <<Real(4, 1), Real(2, 1), Real(-1, 1), Real(9, 4), Real(1, 1)>>

PDNumber(i) == PDNumbers[(i % Len(PDNumbers)) + 1]

\* p fitted values
PDPopt(p, shift) == [i \in 1..p |-> PDNumber(i + shift + 2)]

\* A p x p covariance matrix
PDPcov(p, shift) ==
    PyArray([i \in 1..p |-> [j \in 1..p |->
                IF i = j THEN PDNumber(i + shift - 1) ELSE Real(i + j, 7)]])

\* The names looked up: those of the parameters, with and without the
\* suffix, and a name no parameter has
LookupNames == PDNames \cup {"a_stdev_stdev", "b_stdev", "keys_stdev", "get_stdev", "c", "c_stdev"}

\* ParameterDict(params, popt, pcov)
PDNew(params, popt, pcov) ==
    /\ pdict = NoDict
    /\ pdict' = ParameterDictInit(params, popt, pcov)
                   @@ [init_params |-> params, init_popt |-> popt, init_pcov |-> pcov]
    /\ UNCHANGED <<model, view, fit, run, fit_results, lookup>>

\* getattr(pdict, name)
LookupAttr(name) ==
    /\ pdict.status = "built"
    /\ lookup' = [op |-> "getattr", name |-> name, result |-> GetAttr(pdict, name)]
    /\ UNCHANGED <<model, view, fit, run, fit_results, pdict>>

\* pdict[key]
LookupItem(key) ==
    /\ pdict.status = "built"
    /\ lookup' = [op |-> "getitem", name |-> key, result |-> GetItem(pdict, key)]
    /\ UNCHANGED <<model, view, fit, run, fit_results, pdict>>

\* list(pdict)
LookupIter ==
    /\ pdict.status = "built"
    /\ lookup' = [op |-> "iter", result |-> Iterate(pdict)]
    /\ UNCHANGED <<model, view, fit, run, fit_results, pdict>>

\* pdict.get_value(param)
LookupValue(param) ==
    /\ pdict.status = "built"
    /\ lookup' = [op |-> "get_value", param |-> param, result |-> GetValue(pdict, param)]
    /\ UNCHANGED <<model, view, fit, run, fit_results, pdict>>

\* pdict.get_stdev(param)
LookupStdev(param) ==
    /\ pdict.status = "built"
    /\ lookup' = [op |-> "get_stdev", param |-> param, result |-> GetStdev(pdict, param)]
    /\ UNCHANGED <<model, view, fit, run, fit_results, pdict>>

---------------------------------------------------------------------------
(* The specifications *)

Init ==
    /\ model = NoModel
    /\ view = NoView
    /\ fit = NoFit
    /\ run = NoRun
    /\ fit_results = NoResults
    /\ pdict = NoDict
    /\ lookup = NoLookup

NextModel ==
    \/ \E n \in 0..MaxExprs, first \in 0..(Len(ExprPool) - 1),
          step \in 0..(Len(ExprPool) - 1), names \in KwNames :
          ModelNew(Exprs(n, first, step), Kwargs(names, Exprs(Len(names), first + n * step, step)))
    \/ \E first \in 0..(Len(ExprPool) - 1), step \in 0..(Len(ExprPool) - 1),
          names \in KwNames :
          ModelFromDict([j \in 1..Len(names) |->
                            [k |-> Variable(names[j]), v |-> Exprs(Len(names), first, step)[j]]])
    \/ ReadVars
    \/ ReadBounds

SpecModel == Init /\ [][NextModel]_vars

NextFit ==
    \/ \E i \in FitModels :
          ModelNew(Exprs(i[1], i[2], i[3]), Kwargs(i[4], Exprs(Len(i[4]), i[2] + i[1] * i[3], i[3])))
    \/ /\ model # NoModel
       /\ \E args \in DataArgs, kwargs \in DataKwargs(model),
             absolute_sigma \in {PyNone, PyBool(TRUE), PyBool(FALSE)} :
             FitNew(args, absolute_sigma, kwargs)
    \/ /\ model # NoModel
       /\ \E r1 \in CoreResults(Len(model.params)) :
             \E r2 \in (IF r1.kind = "ValueError" THEN CoreResults(Len(model.params)) ELSE {r1}) :
                Execute(r1, r2)

SpecFit == Init /\ [][NextFit]_vars

\* Construction of fit drivers, on Models that have a variable whose own
\* name starts with sigma_ as well
NextBind ==
    \/ \E i \in FitModels :
          ModelNew(Exprs(i[1], i[2], i[3]), Kwargs(i[4], Exprs(Len(i[4]), i[2] + i[1] * i[3], i[3])))
    \/ \E i \in SigmaModels : ModelNew(i[1], i[2])
    \/ /\ model # NoModel
       /\ \E args \in DataArgs, kwargs \in DataKwargs(model),
             absolute_sigma \in {PyNone, PyBool(TRUE), PyBool(FALSE)} :
             FitNew(args, absolute_sigma, kwargs)

SpecBind == Init /\ [][NextBind]_vars

NextPD ==
    \/ \E params \in PDParamLists, shift \in 0..(Len(PDNumbers) - 1), with_pcov \in BOOLEAN :
          PDNew(params, PDPopt(Len(params), shift),
                IF with_pcov THEN PDPcov(Len(params), shift) ELSE PyNone)
    \/ \E name \in LookupNames : LookupAttr(name)
    \/ \E key \in LookupNames : LookupItem(key)
    \/ LookupIter
    \/ \E name \in PDNames : LookupValue(PDParam(name))
    \/ \E name \in PDNames : LookupStdev(PDParam(name))

SpecPD == Init /\ [][NextPD]_vars

NextLS ==
    \/ \E i \in FitModels :
          ModelNew(Exprs(i[1], i[2], i[3]), Kwargs(i[4], Exprs(Len(i[4]), i[2] + i[1] * i[3], i[3])))
    \/ \E xshape \in Shapes(MaxNdim), yshape \in Shapes(MaxNdim - 1) :
          \E sigma \in SigmaArgs(yshape) :
             LSNew(Arange(xshape), Arange(yshape), sigma[1], sigma[2])

SpecLS == Init /\ [][NextLS]_vars

NextMin ==
    \/ \E i \in MinModels :
          ModelNew(Exprs(i[1], i[2], i[3]), Kwargs(i[4], Exprs(Len(i[4]), i[2] + i[1] * i[3], i[3])))
    \/ \E cls \in {"Minimize", "Maximize"}, data \in MinData, constraints \in ConstraintArgs :
          MinNew(cls, data[1], data[2], constraints)
    \/ CallGetConstraints
    \/ \E numpy \in {"scalar", "raises"}, func \in {"linear", "square"},
          xs \in ErrorArrays, ys \in ErrorArrays :
          CallError(numpy, <<2, -1>>, func, xs, ys)
    \/ /\ model # NoModel
       /\ MinExecute(OptimizeResult(Len(model.params)))

SpecMin == Init /\ [][NextMin]_vars

NextResults ==
    \/ \E i \in MinModels :
          ModelNew(Exprs(i[1], i[2], i[3]), Kwargs(i[4], Exprs(Len(i[4]), i[2] + i[1] * i[3], i[3])))
    \/ \E args \in {<<>>, <<xdata>>, <<xdata, ydata>>, <<PyInt(1)>>},
          absolute_sigma \in {PyNone, PyBool(TRUE)} :
          FitNew(args, absolute_sigma, <<>>)
    \/ /\ model # NoModel
       /\ view = NoView
       /\ \E r1 \in CoreResults(Len(model.params)) : Execute(r1, r1)
    \/ \E name \in Properties : ResultsRead(name)
    \/ ResultsStr
    \/ \E name \in Properties : ResultsAssign(name, PyNone)
    \/ \E key \in {"nfev", "njev"} : ResultsUse(key, PyInt(0))

SpecResults == Init /\ [][NextResults]_vars

---------------------------------------------------------------------------
(* Properties of Model, under SpecModel *)

\* s is in ascending order of symbol name.
AscendingByName(s) ==
    \A i \in 1..Len(s), j \in 1..Len(s) : i < j => ~StrLess(s[j].name, s[i].name)

\* s holds no symbol twice.
NoSymbolTwice(s) ==
    \A i \in 1..Len(s), j \in 1..Len(s) : i # j => s[i] # s[j]

\* C1: params, independent_vars and dependent_vars of every Model are each
\* sorted ascending by symbol name and hold no symbol twice, whatever the
\* order of the symbols in the expressions and however many expressions
\* mention one symbol.
C1_SortedUnique ==
    model # NoModel =>
        /\ AscendingByName(model.params) /\ NoSymbolTwice(model.params)
        /\ AscendingByName(model.independent_vars) /\ NoSymbolTwice(model.independent_vars)
        /\ AscendingByName(model.dependent_vars) /\ NoSymbolTwice(model.dependent_vars)

\* A Model of two expressions that both mention a and x, the first of which
\* writes b before x before a, with a keyword dependent variable z written
\* before y.
C1_Witness ==
    /\ model # NoModel
    /\ Len(model.init_args) = 2
    /\ model.init_args[1] = <<b, x, a>>
    /\ model.init_args[2] = <<c, b, a, x, t>>
    /\ Keys(model.init_kwargs) = <<"z", "y">>
    /\ model.params = <<a, b, c>>
    /\ model.independent_vars = <<t, x>>
    /\ Len(model.dependent_vars) = 4

\* The largest representable number strictly less than the float v.
Predecessor(v) == PyFloat(v.v - 1)

\* C3: the bounds entry of a fixed Parameter is (predecessor of value, value),
\* with the lower bound strictly below the upper, whatever the sign of value;
\* the entry of a Parameter that is not fixed is (min, max).
C3_FixedBounds ==
    (model # NoModel /\ view.prop = "bounds") =>
        /\ Len(view.value) = Len(model.params)
        /\ \A i \in 1..Len(model.params) :
              LET p == model.params[i]
                  lo == view.value[i][1]
                  hi == view.value[i][2]
              IN  IF p.fixed
                  THEN lo = Predecessor(p.value) /\ hi = p.value /\ lo.v < hi.v
                  ELSE lo = p.min /\ hi = p.max

\* C8: Model.vars is independent_vars, then dependent_vars, then the sigma
\* variable of each dependent variable in dependent_vars order; every
\* dependent variable has exactly one sigma variable, named sigma_<its name>.
C8_VarsOrder ==
    (model # NoModel /\ view.prop = "vars") =>
        LET iv == model.independent_vars
            dv == model.dependent_vars
        IN  /\ Len(view.value) = Len(iv) + 2 * Len(dv)
            /\ \A i \in 1..Len(iv) : view.value[i] = iv[i]
            /\ \A j \in 1..Len(dv) :
                  /\ view.value[Len(iv) + j] = dv[j]
                  /\ view.value[Len(iv) + Len(dv) + j] = Variable("sigma_" \o dv[j].name)
                  /\ Cardinality({n \in 1..Len(model.sigmas) : model.sigmas[n].k = dv[j]}) = 1
                  /\ \A n \in 1..Len(model.sigmas) :
                        model.sigmas[n].k = dv[j] =>
                            model.sigmas[n].v = Variable("sigma_" \o dv[j].name)

\* Model.vars read on a Model with two independent and two dependent variables.
C8_Witness ==
    /\ model # NoModel
    /\ view.prop = "vars"
    /\ Len(model.independent_vars) = 2
    /\ Len(model.dependent_vars) = 2
    /\ Len(view.value) = 6

\* The Model was built from positional expressions alone.
PositionalOnly ==
    model # NoModel /\ Len(model.init_args) >= 1 /\ model.init_kwargs = <<>>

\* C9 as stated: for n positional expressions, dependent_vars has n entries
\* and its i-th entry is named y_i and is defined by the i-th expression.
C9_Positional ==
    PositionalOnly =>
        /\ Len(model.dependent_vars) = Len(model.init_args)
        /\ \A i \in 1..Len(model.dependent_vars) :
              /\ model.dependent_vars[i].name = "y_" \o FormatInt(i)
              /\ Get(model.model_dict, model.dependent_vars[i]) = model.init_args[i]

\* C9, amended: for n positional expressions, dependent_vars has n entries,
\* for every i in 1..n exactly one entry is named y_i and it is defined by the
\* i-th expression, the entries are in ascending order of name as str, and
\* for n <= 9 the entry named y_i is the i-th.
C9_PositionalByName ==
    PositionalOnly =>
        LET dv == model.dependent_vars
            n == Len(model.init_args)
        IN  /\ Len(dv) = n
            /\ AscendingByName(dv)
            /\ \A i \in 1..n :
                  /\ Cardinality({j \in 1..n : dv[j].name = "y_" \o FormatInt(i)}) = 1
                  /\ \A j \in 1..n :
                        dv[j].name = "y_" \o FormatInt(i) =>
                            /\ Get(model.model_dict, dv[j]) = model.init_args[i]
                            /\ (n <= 9 => j = i)

\* A Model of ten positional expressions, the second unlike the tenth: the
\* entry named y_10 is the second of dependent_vars.
C9_Witness ==
    /\ PositionalOnly
    /\ Len(model.init_args) = 10
    /\ model.init_args[2] # model.init_args[10]
    /\ model.dependent_vars[2].name = "y_10"

---------------------------------------------------------------------------
(* Properties of the fit driver, under SpecFit *)

\* The names of Model.vars.
VarNames == [i \in 1..Len(ModelVars(model)) |-> ModelVars(model)[i].name]

\* The value the driver holds for a variable name.
BoundValue(name) ==
    IF StartsWith(name, "sigma_") THEN Get(fit.sigmas, name) ELSE Get(fit.data, name)

\* The output of the last call of the core in the run.
LastOutput == run.calls[Len(run.calls)].result.out

\* C2: with exactly one dependent variable the ydata handed to FitResults is
\* the data bound to that dependent variable; otherwise it is None.
C2_YData ==
    run.status = "returned" =>
        run.result.ydata =
            IF Len(model.dependent_vars) = 1
            THEN Get(fit.data, model.dependent_vars[1].name)
            ELSE PyNone

\* C4: the first call of the core has the analytic Jacobian; a second call
\* is made exactly when the first raised ValueError, with the same residual
\* function, initial guess and bounds and no Jacobian; there is no third
\* call; the FitResults is built from the output of the last call.
C4_RetryOnce ==
    run.status # "none" =>
        /\ Len(run.calls) \in {1, 2}
        /\ run.calls[1].Dfun # PyNone
        /\ (run.calls[1].result.kind = "ValueError") <=> (Len(run.calls) = 2)
        /\ Len(run.calls) = 2 =>
              /\ run.calls[2].Dfun = PyNone
              /\ run.calls[2].func = run.calls[1].func
              /\ run.calls[2].x0 = run.calls[1].x0
              /\ run.calls[2].bounds = run.calls[1].bounds
        /\ run.status = "returned" =>
              /\ run.calls[Len(run.calls)].result.kind = "ok"
              /\ Values(run.result.params.popt) = LastOutput.popt
              /\ run.result.infodict = LastOutput.infodic
              /\ run.result.status_message = LastOutput.mesg
              /\ run.result.iterations = LastOutput.ier

\* An execute whose first call raised ValueError and whose second call
\* returned, with a FitResults built.
C4_Witness ==
    /\ run.status = "returned"
    /\ Len(run.calls) = 2
    /\ run.calls[1].result.kind = "ValueError"
    /\ run.calls[2].result.kind = "ok"
    /\ Len(model.params) = 2
    /\ fit_results = run.result

\* C5: the covariance handed to FitResults is absent when cov_x is absent; it
\* is cov_x when absolute_sigma is true; otherwise each entry is the entry of
\* cov_x times sum(fvec^2)/(n - p), n the length of the data of the dependent
\* variable and p the number of fitted parameters.
C5_Covariance ==
    run.status = "returned" =>
        LET cov_x == LastOutput.cov_x
            pcov == run.result.params.pcov
        IN  IF cov_x = PyNone THEN pcov = PyNone
            ELSE IF fit.absolute_sigma = PyBool(TRUE) THEN pcov = cov_x
            ELSE LET n == Len(Get(fit.data, model.dependent_vars[1].name).v)
                     p == Len(LastOutput.popt)
                     ss == SumSquares(Get(LastOutput.infodic, "fvec").v)
                 IN  /\ pcov.t = "ndarray"
                     /\ Len(pcov.v) = Len(cov_x.v)
                     /\ \A i \in 1..Len(cov_x.v) :
                           /\ Len(pcov.v[i]) = Len(cov_x.v[i])
                           /\ \A j \in 1..Len(cov_x.v[i]) :
                                 IF n = p THEN pcov.v[i][j].den = 0
                                 ELSE /\ pcov.v[i][j].den # 0
                                      /\ pcov.v[i][j].num * cov_x.v[i][j].den * (n - p)
                                            = cov_x.v[i][j].num * ss * pcov.v[i][j].den

\* An execute with absolute_sigma false that rescaled a covariance by
\* 5/(4 - 2), the dependent data (4 long) being longer than the first data
\* (1 long).
C5_Witness ==
    /\ run.status = "returned"
    /\ fit.absolute_sigma = PyBool(FALSE)
    /\ LastOutput.cov_x # PyNone
    /\ Len(LastOutput.popt) = 2
    /\ Len(model.dependent_vars) = 1
    /\ Get(fit.data, model.dependent_vars[1].name) = ydata
    /\ Values(fit.data)[1] = zdata
    /\ SumSquares(Get(LastOutput.infodic, "fvec").v) = 5
    /\ run.result.params.pcov.v[1][1] = Real(15, 2)

\* The sigma names that were given a value, by position or by keyword.
SuppliedSigmas ==
    {name \in {VarNames[i] : i \in 1..Len(VarNames)} :
        /\ StartsWith(name, "sigma_")
        /\ \/ name \in KeySet(fit.init_kwargs)
           \/ \E i \in 1..Len(fit.init_args) : VarNames[i] = name}

\* value is the number 1, as an int or as a float
IsScalarOne(value) == value = PyInt(1) \/ value = Real(1, 1)

C7_Binding ==
    fit.status = "built" =>
        /\ \A i \in 1..Len(fit.init_args) : BoundValue(VarNames[i]) = fit.init_args[i]
        /\ \A j \in 1..Len(fit.init_kwargs) :
              BoundValue(fit.init_kwargs[j].k) = fit.init_kwargs[j].v
        /\ \A i \in 1..Len(VarNames) :
              (/\ StartsWith(VarNames[i], "sigma_")
               /\ i > Len(fit.init_args)
               /\ VarNames[i] \notin KeySet(fit.init_kwargs))
                  => BoundValue(VarNames[i]) = PyInt(1)
        /\ KeySet(fit.data) = {VarNames[i] : i \in {n \in 1..Len(VarNames) :
                                                     ~StartsWith(VarNames[n], "sigma_")}}
        /\ KeySet(fit.sigmas) = {VarNames[i] : i \in {n \in 1..Len(VarNames) :
                                                       StartsWith(VarNames[n], "sigma_")}}
        /\ Cardinality(KeySet(fit.data)) = Len(fit.data)
        /\ Cardinality(KeySet(fit.sigmas)) = Len(fit.sigmas)

\* A driver on variables x, y, sigma_y built from the positional values
\* (xdata, ydata) and no keyword: sigma_y holds the default.
C7_Witness ==
    /\ fit.status = "built"
    /\ VarNames = <<"x", "y", "sigma_y">>
    /\ fit.init_args = <<xdata, ydata>>
    /\ fit.init_kwargs = <<>>
    /\ fit.data = <<[k |-> "x", v |-> xdata], [k |-> "y", v |-> ydata]>>
    /\ fit.sigmas = <<[k |-> "sigma_y", v |-> PyInt(1)]>>

\* C18: over any sequence of execute() calls on one driver, the retained
\* result is none until a call succeeds; a call that succeeds builds one
\* FitResults, which is both what it returns and what the driver retains from
\* then on; a call that fails leaves the retained result as it was; nothing
\* else changes the retained result.
C18_Retained ==
    /\ [](run.status = "none" => fit_results = NoResults)
    /\ [](run.status = "returned" => fit_results = run.result)
    /\ [][/\ (run' # run /\ run'.status = "returned") => fit_results' = run'.result
          /\ (run' # run /\ run'.status = "raised") => fit_results' = fit_results
          /\ fit_results' # fit_results =>
                (run'.status = "returned" /\ fit_results' = run'.result)]_vars

\* A call has failed on a driver that retains the result of an earlier call.
C18_Witness ==
    /\ run.status = "raised"
    /\ fit_results.status = "built"

\* C20: in every execute, index i means the parameter Model.params[i] in the
\* initial guess, in the bounds, among the free arguments of the data-bound
\* chi and of every component of the data-bound Jacobian (whose i-th
\* component is the derivative with respect to that parameter), and in the
\* ParameterDict, which reports the i-th fitted value under its name.
C20_SameParameter ==
    run.status # "none" =>
        /\ Len(PartialChi(model, fit)) = Len(model.params)
        /\ Len(PartialJacobian(model, fit)) = Len(model.params)
        /\ \A n \in 1..Len(run.calls) :
              /\ Len(run.calls[n].x0) = Len(model.params)
              /\ Len(run.calls[n].bounds) = Len(model.params)
              /\ run.calls[n].func = [partial_chi |-> fit.partial_args]
              /\ run.calls[n].Dfun \in {PyNone, [partial_jacobian |-> fit.partial_args]}
        /\ \A i \in 1..Len(model.params) :
              /\ \A n \in 1..Len(run.calls) :
                    /\ run.calls[n].x0[i] = model.params[i].value
                    /\ run.calls[n].bounds[i] = BoundsOf(model.params[i])
              /\ PartialChi(model, fit)[i] = model.params[i].name
              /\ PartialJacobian(model, fit)[i].wrt = model.params[i].name
              /\ \A j \in 1..Len(model.params) :
                    PartialJacobian(model, fit)[j].args[i] = model.params[i].name
              /\ run.status = "returned" =>
                    /\ Len(run.result.params.popt) = Len(model.params)
                    /\ run.result.params.popt[i] =
                          [k |-> model.params[i].name, v |-> LastOutput.popt[i]]
                    /\ GetValue(run.result.params, model.params[i]) =
                          Return(LastOutput.popt[i])

\* An execute has returned on a Model of two parameters with different
\* values and different bounds, after a second call of the core.
C20_Witness ==
    /\ run.status = "returned"
    /\ Len(run.calls) = 2
    /\ Len(model.params) = 2
    /\ model.params[1].value # model.params[2].value
    /\ BoundsOf(model.params[1]) # BoundsOf(model.params[2])
    /\ LastOutput.popt[1] # LastOutput.popt[2]

---------------------------------------------------------------------------
(* Properties of the construction of a fit driver, under SpecBind *)

\* The variable at i was given no value, by position or by keyword.
NotGiven(i) ==
    /\ i > Len(fit.init_args)
    /\ VarNames[i] \notin KeySet(fit.init_kwargs)

\* Too many positional values, an unknown keyword name, or a variable given
\* both by position and by keyword.
BadArguments ==
    \/ Len(fit.init_args) > Len(VarNames)
    \/ \E j \in 1..Len(fit.init_kwargs) :
          \A i \in 1..Len(VarNames) : VarNames[i] # fit.init_kwargs[j].k
    \/ \E j \in 1..Len(fit.init_kwargs), i \in 1..Len(VarNames) :
          VarNames[i] = fit.init_kwargs[j].k /\ i <= Len(fit.init_args)

\* Two variables of the Model have one name.
SameNameTwice ==
    \E i \in 1..Len(VarNames), j \in 1..Len(VarNames) : i # j /\ VarNames[i] = VarNames[j]

\* What a completed construction holds for missing values and for names
\* that start with sigma_.
MissingAndSigmas ==
    fit.status = "built" =>
        /\ Len(fit.partial_args) = Len(VarNames)
        /\ \A i \in 1..Len(VarNames) :
              /\ fit.partial_args[i] = BoundValue(VarNames[i])
              /\ IF StartsWith(VarNames[i], "sigma_")
                 THEN /\ VarNames[i] \in KeySet(fit.sigmas)
                      /\ VarNames[i] \notin KeySet(fit.data)
                      /\ NotGiven(i) => Get(fit.sigmas, VarNames[i]) = PyInt(1)
                 ELSE /\ VarNames[i] \in KeySet(fit.data)
                      /\ VarNames[i] \notin KeySet(fit.sigmas)
                      /\ NotGiven(i) => Get(fit.data, VarNames[i]) = PyNone

\* C23 as stated: construction is rejected only for too many positional
\* values, an unknown keyword name or a variable given both ways; a variable
\* given no value is bound to None in the data and in the data-bound chi and
\* Jacobian; a variable whose name starts with sigma_ defaults to 1 and is
\* held in sigmas, not in the data.
C23_MissingData ==
    fit.status # "none" =>
        /\ fit.status \in {"built", "ValueError", "TypeError"}
        /\ fit.status # "built" <=> BadArguments
        /\ MissingAndSigmas

\* C23, with the rejection of names: construction is rejected with
\* ValueError where two variables of the Model have one name, and otherwise
\* with TypeError for too many positional values, an unknown keyword name or
\* a variable given both ways, and for nothing else; a variable given no
\* value is bound to None in the data and in the data-bound chi and
\* Jacobian; a variable whose name starts with sigma_ defaults to 1 and is
\* held in sigmas, not in the data.
C23_MissingDataDistinctNames ==
    fit.status # "none" =>
        /\ fit.status \in {"built", "ValueError", "TypeError"}
        /\ fit.status = "ValueError" <=> SameNameTwice
        /\ fit.status = "TypeError" <=> (~SameNameTwice /\ BadArguments)
        /\ MissingAndSigmas

\* A driver built without data on a Model of the variables sigma_x, y_1,
\* sigma_y_1: y_1 is None, sigma_x and sigma_y_1 are 1.
C23_Witness ==
    /\ fit.status = "built"
    /\ VarNames = <<"sigma_x", "y_1", "sigma_y_1">>
    /\ fit.init_args = <<>>
    /\ fit.init_kwargs = <<>>
    /\ fit.partial_args = <<PyInt(1), PyNone, PyInt(1)>>
    /\ fit.data = <<[k |-> "y_1", v |-> PyNone]>>
    /\ fit.sigmas = <<[k |-> "sigma_x", v |-> PyInt(1)], [k |-> "sigma_y_1", v |-> PyInt(1)]>>

---------------------------------------------------------------------------
(* Properties of ParameterDict, under SpecPD *)

\* The names of the parameters the ParameterDict was built from.
ParamNames == [i \in 1..Len(pdict.init_params) |-> pdict.init_params[i].name]

\* r is what np.sqrt gives for e
IsRootOf(r, e) ==
    /\ r.t = "float"
    /\ IF e.den = 0 \/ e.num < 0 THEN r = (IF e.den = 0 /\ e.num > 0 THEN e ELSE NaN)
       ELSE IF "sqrt" \in DOMAIN r THEN r.sqrt = e /\ ~(IsSquare(e.num) /\ IsSquare(e.den))
       ELSE /\ r.num >= 0
            /\ r.den > 0
            /\ r.num * r.num * e.den = e.num * r.den * r.den

\* The lookup returned the fitted value given with the i-th parameter.
ReturnedValue(i) == lookup.result = Return(pdict.init_popt[i])

\* The lookup returned the root of the i-th diagonal entry of the covariance.
ReturnedStdev(i) ==
    /\ lookup.result.kind = "return"
    /\ IsRootOf(lookup.result.value, pdict.init_pcov.v[i][i])

ParamNameSet == {ParamNames[i] : i \in 1..Len(ParamNames)}

StdevNames == {ParamNames[i] \o "_stdev" : i \in 1..Len(ParamNames)}

ShadowsStdev(j, i) == ParamNames[j] = ParamNames[i] \o "_stdev"

\* get_stdev returned the standard deviation of the i-th parameter.
ReturnedStdevOrNone(i) ==
    IF pdict.init_pcov = PyNone THEN lookup.result = Return(PyNone) ELSE ReturnedStdev(i)

---------------------------------------------------------------------------
(* Properties of LeastSquares, under SpecLS *)

\* len(self.model.vars)
VarCount == Len(ModelVars(model))

\* LeastSquares.__init__ was left by the exception of _flatten.
FlattenFailed ==
    /\ fit.status = "Exception"
    /\ fit.what # "y and sigma must have the same shape."

\* LeastSquares.__init__ ran, to its end or to an exception.
LSRan == fit.status \in {"built", "Exception"}

\* x is one-dimensional and of the shape of y.
OneDim == Len(fit.init_x.shape) = 1 /\ fit.init_x.shape = fit.init_y.shape

\* The last axis of x, of at least ndim, has the variables, the others are y's.
VarsLast(ndim) ==
    /\ Len(fit.init_x.shape) >= ndim
    /\ fit.init_x.shape[Len(fit.init_x.shape)] = VarCount
    /\ SubSeq(fit.init_x.shape, 1, Len(fit.init_x.shape) - 1) = fit.init_y.shape

\* The first axis of x, of at least ndim, has the variables, the others are y's.
VarsFirst(ndim) ==
    /\ Len(fit.init_x.shape) >= ndim
    /\ fit.init_x.shape[1] = VarCount
    /\ Tail(fit.init_x.shape) = fit.init_y.shape

\* x and y were flattened to M rows and to one row.
Flattened ==
    fit.status = "built" =>
        /\ fit.xdata.shape = <<VarCount, Product(fit.init_y.shape)>>
        /\ fit.ydata.shape = <<Product(fit.init_y.shape)>>

\* x and y were passed through.
PassedThrough ==
    fit.status = "built" => (fit.xdata = fit.init_x /\ fit.ydata = fit.init_y)

\* C13 as stated: _flatten passes a one-dimensional x of the shape of y
\* through, flattens x to M rows where its last axis has M elements and the
\* leading ones are the shape of y, or its first axis has M elements and the
\* trailing ones are the shape of y, and fails on every other pair of shapes.
C13_Flatten ==
    LSRan =>
        /\ OneDim => (~FlattenFailed /\ PassedThrough)
        /\ (VarsLast(1) \/ VarsFirst(1)) => (~FlattenFailed /\ Flattened)
        /\ ~(OneDim \/ VarsLast(1) \/ VarsFirst(1)) => FlattenFailed

\* C13, the two cases of the variables on an axis being for an x of two or
\* more axes: _flatten passes a one-dimensional x of the shape of y through,
\* flattens an x of two or more axes to M rows where its last axis has M
\* elements and the leading ones are the shape of y, or its first axis has M
\* elements and the trailing ones are the shape of y, and fails on every
\* other pair of shapes, that of a one-dimensional x and a y of another shape
\* included.
C13_FlattenFromTwoAxes ==
    LSRan =>
        /\ OneDim => (~FlattenFailed /\ PassedThrough)
        /\ (VarsLast(2) \/ VarsFirst(2)) => (~FlattenFailed /\ Flattened)
        /\ ~(OneDim \/ VarsLast(2) \/ VarsFirst(2)) => FlattenFailed

\* An x of shape (1, 2, 2) and a y of shape (1, 2) on a Model of 2 variables:
\* x flattened to (2, 2), y to (2,).
C13_Witness ==
    /\ fit.status = "built"
    /\ VarCount = 2
    /\ fit.init_x.shape = <<1, 2, 2>>
    /\ fit.init_y.shape = <<1, 2>>
    /\ fit.xdata.shape = <<2, 2>>
    /\ fit.ydata.shape = <<2>>

\* C14: where _flatten accepts x and y, a sigma left out is 1, a number is
\* spread over the shape of the flattened y, an array of the shape of y is
\* flattened so that its i-th element and the i-th element of the flattened
\* y come from the same place, and an array of another shape is rejected.
C14_SigmaAligned ==
    (LSRan /\ ~FlattenFailed) =>
        IF fit.init_sigma = PyNone THEN fit.status = "built" /\ fit.sigma = PyInt(1)
        ELSE IF IsScalar(fit.init_sigma)
        THEN /\ fit.status = "built"
             /\ fit.sigma.shape = fit.ydata.shape
             /\ \A i \in 1..Len(fit.sigma.v) : fit.sigma.v[i] = fit.init_sigma
        ELSE IF fit.init_sigma.shape = fit.init_y.shape
        THEN /\ fit.status = "built"
             /\ fit.sigma.shape = fit.ydata.shape
             /\ \A i \in 1..Len(fit.sigma.v) : fit.sigma.v[i] = fit.ydata.v[i]
        ELSE fit.status = "Exception"

\* The index in the original y of the i-th element of the flattened y (the
\* elements of y are their own places).
PlaceInY(i) == Unravel(fit.ydata.v[i] - 1, fit.init_y.shape)

\* The element of the flattened x in row j, column i.
FlatX(j, i) == fit.xdata.v[Ravel(<<j - 1, i - 1>>, fit.xdata.shape) + 1]

\* The element of the original x at the index.
OriginalX(index) == fit.init_x.v[Ravel(index, fit.init_x.shape) + 1]

---------------------------------------------------------------------------
(* Properties of Minimize and Maximize, under SpecMin *)

\* The classes of the six relations get_constraints knows
Relations == {"Eq", "Gt", "Ge", "Ne", "Lt", "Le"}

\* C15: get_constraints returns one constraint per symbolic constraint, in
\* their order, of type eq for an equality and ineq for each of the five
\* other relations; with a constraint of another class it raises (KeyError)
\* and returns nothing.
C15_Constraints ==
    (fit.status = "built" /\ view.prop = "get_constraints") =>
        IF \A i \in 1..Len(fit.constraints) : fit.constraints[i].class \in Relations
        THEN /\ view.value.kind = "return"
             /\ Len(view.value.value) = Len(fit.constraints)
             /\ \A i \in 1..Len(fit.constraints) :
                   /\ view.value.value[i].args[2] = fit.constraints[i]
                   /\ view.value.value[i].type =
                         IF fit.constraints[i].class = "Eq" THEN "eq" ELSE "ineq"
        ELSE /\ view.value.kind = "raise"
             /\ view.value.error = "KeyError"

\* The constraints (Gt, Ge, Ne) translated to three of type ineq.
C15_Witness ==
    /\ fit.status = "built"
    /\ view.prop = "get_constraints"
    /\ Len(fit.constraints) = 3
    /\ fit.constraints[1].class = "Gt"
    /\ fit.constraints[3].class = "Ne"
    /\ view.value.kind = "return"
    /\ view.value.value[3].type = "ineq"

\* C16: on the same arguments, what Maximize.error returns is the negation,
\* element by element, of what Minimize.error returns, whichever branch
\* Minimize.error takes; where Minimize.error raises, so does Maximize.error.
C16_Negation ==
    view.prop = "error" =>
        IF view.Minimize.kind = "return"
        THEN /\ view.Maximize.kind = "return"
             /\ Len(view.Maximize.value.v) = Len(view.Minimize.value.v)
             /\ \A i \in 1..Len(view.Minimize.value.v) :
                   view.Maximize.value.v[i] + view.Minimize.value.v[i] = 0
             /\ \/ view.Minimize = Return(Apply(view.func, view.x, view.p))
                \/ view.Minimize = Subtract(Apply(view.func, view.x, view.p), view.y)
        ELSE view.Maximize = view.Minimize

\* error on x = [1, 2], y = [1, 2] and p[0]*x + p[1] with p = (2, -1), in
\* the branch that subtracts y: Minimize.error is [0, 1], Maximize.error is
\* [0, -1].
C16_Witness ==
    /\ view.prop = "error"
    /\ view.func = "linear"
    /\ view.x = PyArray(<<1, 2>>)
    /\ view.y = PyArray(<<1, 2>>)
    /\ view.Minimize = Return(PyArray(<<0, 1>>))
    /\ view.Maximize = Return(PyArray(<<0, -1>>))

\* C19: Minimize.execute returns a FitResults without covariance, each
\* standard deviation None, whose infodict has the objective value of the
\* optimizer as fvec and its evaluation count as nfev, and whose status
\* message and iterations are the message and the iteration count of the
\* optimizer.
C19_MinimizeExecute ==
    (fit.status = "built" /\ run.status # "none") =>
        /\ run.status = "returned"
        /\ run.result.params.pcov = PyNone
        /\ \A i \in 1..Len(run.result.params.pstdev) :
              run.result.params.pstdev[i].v = PyNone
        /\ Get(run.result.infodict, "fvec") = run.calls[1].result.fun
        /\ Get(run.result.infodict, "nfev") = run.calls[1].result.nfev
        /\ run.result.status_message = run.calls[1].result.message
        /\ run.result.iterations = run.calls[1].result.nit

---------------------------------------------------------------------------
(* Properties of FitResults, under SpecResults *)

\* C17: once a FitResults is there, reading a property of it, rendering it,
\* assigning to a property of it or using what a getter returned changes
\* nothing of its fitted values, standard deviations, covariance and
\* infodict.
C17_ReadOnly ==
    [][(fit_results.status = "built" /\ run' = run) =>
          /\ fit_results'.params = fit_results.params
          /\ fit_results'.infodict = fit_results.infodict]_vars

=============================================================================
